---- MODULE Spec2Model ----
(***************************************************************************)
(* Model of src/main.py: class TemplateDisplacement (template image,       *)
(* displacement map, selected area) and its three methods                  *)
(* create_displacement_map, set_selected_area and place_graphic.           *)
(*                                                                         *)
(* Python's float is the IEEE-754 binary64 format.  The divisions and      *)
(* multiplications of place_graphic are evaluated here as binary64         *)
(* operations (53-bit significand, round to nearest, ties to even) on      *)
(* arbitrary-precision naturals, so that int(...) of a quotient or product *)
(* gives what the interpreter gives, not what exact arithmetic would give. *)
(***************************************************************************)
EXTENDS Integers, Sequences, FiniteSets

(***************************************************************************)
(* Bounds of the model.                                                    *)
(***************************************************************************)
\* size of the template image of the object under test
TemplateW == 2
TemplateH == 2
\* graphics handed to place_graphic are 1..MaxGraphic pixels wide and high
MaxGraphic == 2
\* the scaling computation on its own: selections of 1..AspectMaxArea pixels
\* a side, graphics of 1..AspectMaxGraphic pixels a side
AspectMaxArea == 6
AspectMaxGraphic == 9
\* the displacement of one pixel on its own: rows 0..ShiftMaxRow
ShiftMaxRow == 3

\* scale_factor values, as numerator and denominator; the denominators are
\* powers of two, so each is a binary64 value
Scales == {<<1, 2>>, <<1, 1>>, <<3, 2>>, <<2, 1>>}

Max2(a, b) == IF a >= b THEN a ELSE b
Min2(a, b) == IF a <= b THEN a ELSE b

\* name = value, then the statements after it: an assignment of the program
\* evaluates its right-hand side once, and what follows reads the value
Bind(value, Rest(_)) == CHOOSE r \in {Rest(name) : name \in {value}} : TRUE

(***************************************************************************)
(* Arbitrary-precision naturals: little-endian sequences of limbs in base  *)
(* 2^15, without high zero limbs; <<>> is zero.                            *)
(***************************************************************************)
Base == 2^15

RECURSIVE BigTrim(_)
BigTrim(a) ==
    IF a = <<>> THEN <<>>
    ELSE IF a[Len(a)] = 0 THEN BigTrim(SubSeq(a, 1, Len(a) - 1))
    ELSE a

\* a * n + c  for naturals n < 2^15 and c < 2^30
RECURSIVE BigMulAddFrom(_, _, _, _)
BigMulAddFrom(a, n, c, i) ==
    IF i > Len(a)
    THEN IF c = 0 THEN <<>> ELSE <<c % Base>> \o BigMulAddFrom(a, n, c \div Base, i)
    ELSE LET v == a[i] * n + c
         IN  <<v % Base>> \o BigMulAddFrom(a, n, v \div Base, i + 1)

BigMulAdd(a, n, c) == BigTrim(BigMulAddFrom(a, n, c, 1))

BigOfInt(n) == BigMulAdd(<<>>, 0, n)

\* the value of a, for a < 2^31
RECURSIVE BigToIntFrom(_, _)
BigToIntFrom(a, i) ==
    IF i > Len(a) THEN 0 ELSE a[i] + Base * BigToIntFrom(a, i + 1)

BigToInt(a) == BigToIntFrom(a, 1)

BigOdd(a) == a # <<>> /\ a[1] % 2 = 1

\* floor(a / 2^k)
BigShr(a, k) ==
    LET drop == k \div 15
        b    == k % 15
        t    == IF drop >= Len(a) THEN <<>> ELSE SubSeq(a, drop + 1, Len(a))
    IN  BigTrim([i \in 1..Len(t) |->
                    (t[i] \div 2^b)
                    + (IF i < Len(t) THEN (t[i + 1] % 2^b) * 2^(15 - b) ELSE 0)])

\* a * 2^k
BigShl(a, k) ==
    IF a = <<>> THEN <<>>
    ELSE [i \in 1..(k \div 15) |-> 0] \o BigMulAdd(a, 2^(k % 15), 0)

\* a >= b
RECURSIVE BigGeqFrom(_, _, _)
BigGeqFrom(a, b, i) ==
    IF i = 0 THEN TRUE
    ELSE IF a[i] # b[i] THEN a[i] > b[i]
    ELSE BigGeqFrom(a, b, i - 1)

BigGeq(a, b) ==
    IF Len(a) # Len(b) THEN Len(a) > Len(b) ELSE BigGeqFrom(a, b, Len(a))

\* a - b for a >= b
RECURSIVE BigSubFrom(_, _, _, _)
BigSubFrom(a, b, borrow, i) ==
    IF i > Len(a) THEN <<>>
    ELSE LET v == a[i] - (IF i <= Len(b) THEN b[i] ELSE 0) - borrow
         IN  IF v < 0 THEN <<v + Base>> \o BigSubFrom(a, b, 1, i + 1)
             ELSE <<v>> \o BigSubFrom(a, b, 0, i + 1)

BigSub(a, b) == BigTrim(BigSubFrom(a, b, 0, 1))

RECURSIVE IntBitLen(_)
IntBitLen(n) == IF n = 0 THEN 0 ELSE 1 + IntBitLen(n \div 2)

BigBitLen(a) ==
    IF a = <<>> THEN 0 ELSE 15 * (Len(a) - 1) + IntBitLen(a[Len(a)])

(***************************************************************************)
(* binary64 values >= 0: <<m, e>> stands for m * 2^e, m a natural of at    *)
(* most 53 significant bits (the exponent range is never approached by the *)
(* image dimensions of the program, so it is not bounded here).            *)
(***************************************************************************)
FZero == <<<<>>, 0>>

FOfInt(n) == <<BigOfInt(n), 0>>

\* the nearest binary64 to m * 2^e (+ a nonzero tail below the last bit of m
\* when sticky): round to nearest, ties to even
FRound(m, e, sticky) ==
    LET L == BigBitLen(m)
        k == L - 53
    IN  IF k <= 0 THEN <<m, e>>
        ELSE LET kept  == BigShr(m, k)
                 above == BigShr(m, k - 1)
                 tail  == sticky \/ BigShl(above, k - 1) # m
                 up    == BigOdd(above) /\ (tail \/ BigOdd(kept))
             IN  <<IF up THEN BigMulAdd(kept, 1, 1) ELSE kept, e + k>>

\* one step of the long division r / y (r < y): the next quotient bit, until
\* the remainder is zero or the quotient has 54 significant bits
FDivStep(s, y) ==
    IF s[1] = <<>> \/ BigBitLen(s[2]) = 54 THEN s
    ELSE LET r2 == BigMulAdd(s[1], 2, 0)
         IN  IF BigGeq(r2, y)
             THEN <<BigSub(r2, y), BigMulAdd(s[2], 2, 1), s[3] - 1>>
             ELSE <<r2, BigMulAdd(s[2], 2, 0), s[3] - 1>>

\* the steps are composed on the value of the step before
FDivStep2(s, y) == Bind(FDivStep(s, y), LAMBDA v : FDivStep(v, y))
FDivStep4(s, y) == Bind(FDivStep2(s, y), LAMBDA v : FDivStep2(v, y))
FDivStep8(s, y) == Bind(FDivStep4(s, y), LAMBDA v : FDivStep4(v, y))
FDivStep16(s, y) == Bind(FDivStep8(s, y), LAMBDA v : FDivStep8(v, y))
FDivStep32(s, y) == Bind(FDivStep16(s, y), LAMBDA v : FDivStep16(v, y))

\* 56 steps: at most two leading zero bits, then 54 significant bits
FDivSteps(s, y) ==
    Bind(FDivStep32(s, y), LAMBDA v :
    Bind(FDivStep16(v, y), LAMBDA w : FDivStep8(w, y)))

\* the operands of x / y aligned: <<r, yy, e>> with r < yy < 4 * r and
\* x / y = (r / yy) * 2^e
FDivAligned(x, y) ==
    LET d == BigBitLen(y[1]) - BigBitLen(x[1])
    IN  <<IF d >= 1 THEN BigShl(x[1], d - 1) ELSE x[1],
          IF d >= 1 THEN y[1] ELSE BigShl(y[1], 1 - d),
          x[2] - y[2] + 1 - d>>

\* a / b for b # 0
FDiv(a, b) ==
    Bind(<<a, b>>, LAMBDA p :
        IF p[1][1] = <<>> THEN FZero
        ELSE Bind(FDivAligned(p[1], p[2]), LAMBDA al :
             Bind(FDivSteps(<<al[1], <<>>, al[3]>>, al[2]), LAMBDA s :
                 FRound(s[2], s[3], s[1] # <<>>))))

\* n * a for an integer n >= 0
FMulInt(n, a) ==
    Bind(a, LAMBDA f :
        IF n = 0 \/ f[1] = <<>> THEN FZero
        ELSE Bind(BigMulAdd(f[1], n, 0), LAMBDA m : FRound(m, f[2], FALSE)))

\* x > y, for the values x and y
FGtValues(x, y) ==
    IF x[1] = <<>> THEN FALSE
    ELSE IF y[1] = <<>> THEN TRUE
    ELSE LET hx == BigBitLen(x[1]) + x[2]
             hy == BigBitLen(y[1]) + y[2]
         IN  IF hx # hy THEN hx > hy
             ELSE IF x[2] >= y[2]
             THEN Bind(BigShl(x[1], x[2] - y[2]), LAMBDA xs :
                      xs # y[1] /\ BigGeq(xs, y[1]))
             ELSE Bind(BigShl(y[1], y[2] - x[2]), LAMBDA ys :
                      x[1] # ys /\ BigGeq(x[1], ys))

\* a > b
FGt(a, b) == Bind(<<a, b>>, LAMBDA p : FGtValues(p[1], p[2]))

\* int(a): truncation toward zero
FTrunc(a) ==
    Bind(a, LAMBDA f :
        IF f[1] = <<>> \/ BigBitLen(f[1]) + f[2] <= 0 THEN 0
        ELSE IF f[2] >= 0 THEN BigToInt(BigShl(f[1], f[2]))
        ELSE BigToInt(BigShr(f[1], 0 - f[2])))

(***************************************************************************)
(* The float expressions of place_graphic.                                 *)
(***************************************************************************)
\* the largest operand of an int / int division in either specification
RatioMax ==
    Max2(2 * Max2(TemplateW, TemplateH) * MaxGraphic,
         Max2(2 * AspectMaxArea, AspectMaxGraphic))

\* a / b for integers a >= 0, b > 0 (looked up: the quotients are computed once)
RatioMemo == [a \in 0..RatioMax, b \in 1..RatioMax |-> FDiv(FOfInt(a), FOfInt(b))]

IntRatio(a, b) == RatioMemo[a, b]

\* int(area * scale_factor)
ScaledInt(area, s) == FTrunc(FMulInt(area, IntRatio(s[1], s[2])))

\* lines 71-81: the size the graphic is resized to, <<scaled_width,
\* scaled_height>>, for initial sizes sw0 >= 0, sh0 > 0 (sh0 = 0 divides by
\* zero at line 76) and a graphic of gw x gh pixels
AspectFit(sw0, sh0, gw, gh) ==
    LET original_aspect == IntRatio(gw, gh)
        target_aspect   == IntRatio(sw0, sh0)
    IN  IF FGt(original_aspect, target_aspect)
        THEN <<FTrunc(FMulInt(sh0, original_aspect)), sh0>>
        ELSE <<sw0, FTrunc(FDiv(FOfInt(sw0), original_aspect))>>

\* int(i * (area / scaled)): lines 103-104
MapCoord(i, area, scaled) == FTrunc(FMulInt(i, IntRatio(area, scaled)))

(***************************************************************************)
(* Images.  A pixel is <<red, green, blue, alpha>>; an image is a function *)
(* from the row y to the function from the column x to the pixel, as the   *)
(* numpy arrays of the program are indexed [y, x].                         *)
(***************************************************************************)
White == <<255, 255, 255, 255>>
Red   == <<255, 0, 0, 255>>
Black == <<0, 0, 0, 255>>
Clear == <<0, 0, 0, 0>>

\* the templates an object is constructed from: a flat white one and one with
\* dark creases; template_image.convert('RGBA') leaves both as they are
TemplateKinds == {"white", "creased"}

TemplateImage(kind) ==
    [y \in 0..(TemplateH - 1) |->
        [x \in 0..(TemplateW - 1) |->
            IF kind = "white" THEN White
            ELSE IF (x + y) % 3 = 0 THEN Black
            ELSE IF (x + y) % 3 = 1 THEN Red
            ELSE White]]

\* Image.convert('L') of one pixel: the ITU-R 601-2 luma transform in the
\* 16-bit fixed point of the imaging library
Luminance(p) == (p[1] * 19595 + p[2] * 38470 + p[3] * 7471 + 2^15) \div 2^16

\* np.array(self.template.convert('L'))
GrayArray(img) ==
    [y \in DOMAIN img |-> [x \in DOMAIN img[y] |-> Luminance(img[y][x])]]

\* the graphic after convert('RGBA') and resize((w, h), LANCZOS).  The
\* resampling filter is not modelled: the resized pixels are opaque and
\* pairwise distinct, each carrying its own column and row.
ResizedGraphic(w, h) ==
    [y \in 0..(h - 1) |-> [x \in 0..(w - 1) |-> <<x + 1, y + 1, 128, 255>>]]

\* np.zeros_like(graphic_array)
ZerosLike(w, h) == [y \in 0..(h - 1) |-> [x \in 0..(w - 1) |-> Clear]]

(***************************************************************************)
(* The displacement of one source pixel, lines 110-120.                    *)
(*   crease_intensity = (1 - d / 255.0) ** 1.5                             *)
(* int() truncates; both products are >= 0 for the rows y <= 31 of the     *)
(* model (sin(y / 10) > 0), so int(x + p) = x + floor(p).  floor(p) is     *)
(* decided in integers: k <= 6 * c  iff  k^2 * 255^3 <= 36 * (255 - d)^3.  *)
(* The binary64 products differ from the real ones by less than 1e-12 and  *)
(* no real product with 0 < d < 255 lies within 1e-5 of an integer, so the *)
(* truncations agree.                                                      *)
(***************************************************************************)
ISqrt(n) == CHOOSE k \in 0..16 : k * k <= n /\ (k + 1) * (k + 1) > n

\* k - 1/2 <= crease_intensity * 6, squared and cleared of fractions:
\* (2k - 1)^2 * 255^3 <= 144 * (255 - d)^3
RoundReaches(k, d) ==
    BigGeq(BigMulAdd(BigOfInt((255 - d) * (255 - d) * (255 - d)), 144, 0),
           BigMulAdd(BigOfInt(255 * 255 * 255), (2 * k - 1) * (2 * k - 1), 0))

\* crease_intensity * 6 rounded to the nearest integer, as round() would give
\* (the product is half-way between two integers for no d)
VShiftRounded(d) == Cardinality({k \in 1..6 : RoundReaches(k, d)})

\* floor(crease_intensity * 6)
VShift(d) == ISqrt((36 * (255 - d) * (255 - d) * (255 - d)) \div (255 * 255 * 255))

\* floor(10^4 * sin(y / 10)) for y = 0..31
SinTable ==
    <<0, 998, 1986, 2955, 3894, 4794, 5646, 6442, 7173, 7833, 8414, 8912,
      9320, 9635, 9854, 9974, 9995, 9916, 9738, 9463, 9092, 8632, 8084, 7457,
      6754, 5984, 5155, 4273, 3349, 2392, 1411, 415>>

\* k <= crease_intensity * 8 * sin(y / 10), squared and cleared of fractions:
\* k^2 * 255^3 * 10^8 <= 64 * (255 - d)^3 * SinTable[y + 1]^2
HReaches(k, d, y) ==
    LET lhs == BigMulAdd(BigMulAdd(BigMulAdd(
                   BigOfInt(255 * 255 * 255), k * k, 0), 10000, 0), 10000, 0)
        rhs == BigMulAdd(BigMulAdd(BigMulAdd(
                   BigOfInt((255 - d) * (255 - d) * (255 - d)), 64, 0),
                   SinTable[y + 1], 0), SinTable[y + 1], 0)
    IN  BigGeq(rhs, lhs)

\* floor(crease_intensity * 8 * sin(y / 10))
HShift(d, y) == Cardinality({k \in 1..8 : HReaches(k, d, y)})

\* the sides of a selection and of a resized graphic are at most
MaxArea == Max2(TemplateW, TemplateH)
MaxScaled == 2 * MaxArea * MaxGraphic

\* the values of the displacement map
TemplateLuminances ==
    {Luminance(TemplateImage(k)[y][x]) :
        k \in TemplateKinds, y \in 0..(TemplateH - 1), x \in 0..(TemplateW - 1)}

\* (looked up: each shift is computed once)
HShiftMemo == [d \in TemplateLuminances, y \in 0..(MaxScaled - 1) |-> HShift(d, y)]

\* int(x + crease_intensity * 8 * np.sin(y / 10)), line 115
DisplacedX(x, y, d) == x + HShiftMemo[d, y]

\* int(y + crease_intensity * 6), line 116
DisplacedY(y, d) == y + VShift(d)

\* min(max(v, 0), n - 1), lines 119-120
ClampIndex(v, n) == Min2(Max2(v, 0), n - 1)

(***************************************************************************)
(* place_graphic, lines 49-132, as a function of the object's fields and   *)
(* the call's arguments.                                                   *)
(***************************************************************************)
AspectFitMemo ==
    [sw0 \in 0..(2 * MaxArea), sh0 \in 1..(2 * MaxArea),
     gw \in 1..MaxGraphic, gh \in 1..MaxGraphic |-> AspectFit(sw0, sh0, gw, gh)]

ScaledIntMemo == [area \in 0..MaxArea, s \in Scales |-> ScaledInt(area, s)]

MapCoordMemo ==
    [i \in 0..(MaxScaled - 1), area \in 0..MaxArea, scaled \in 1..MaxScaled |->
        MapCoord(i, area, scaled)]

\* self.displacement_map[y1:y2, x1:x2], line 90: the rows y1..y2-1 and the
\* columns x1..x2-1 that exist, with the shape; None is not subscriptable
DispRegion(dmap, sel) ==
    LET rows == Max2(0, Min2(sel[4], TemplateH) - sel[2])
        cols == Max2(0, Min2(sel[3], TemplateW) - sel[1])
    IN  [h  |-> rows,
         w  |-> cols,
         at |-> [y \in 0..(rows - 1) |->
                    [x \in 0..(cols - 1) |-> dmap[sel[2] + y][sel[1] + x]]]]

\* a variant of the assignment of line 122 that keeps what an earlier source
\* pixel wrote
WritePixelIfEmpty(buf, new_y, new_x, px) ==
    IF buf[new_y][new_x] = Clear THEN [buf EXCEPT ![new_y][new_x] = px] ELSE buf

\* displaced[new_y, new_x] = graphic_array[y, x], line 122
WritePixel(buf, new_y, new_x, px) == [buf EXCEPT ![new_y][new_x] = px]

\* an index i into an axis of length n: numpy accepts -n..n-1
IndexOk(i, n) == 0 - n <= i /\ i < n

\* the body of the loop for the source pixel (x, y), lines 102-122.  acc is
\* the displaced buffer so far, the number of source pixels skipped, and
\* whether an IndexError has been raised (which ends the loop)
SourceStep(ctx, acc, x, y) ==
    Bind(MapCoordMemo[x, ctx.area_width, ctx.sw], LAMBDA map_x :
    Bind(MapCoordMemo[y, ctx.area_height, ctx.sh], LAMBDA map_y :
        IF acc.error THEN acc
        ELSE IF map_y >= ctx.region.h \/ map_x >= ctx.region.w
        THEN [acc EXCEPT !.skipped = @ + 1]
        ELSE IF ~IndexOk(map_y, ctx.region.h) \/ ~IndexOk(map_x, ctx.region.w)
        THEN [acc EXCEPT !.error = TRUE]
        ELSE
        Bind(ctx.region.at[map_y][map_x], LAMBDA d :
        Bind(ClampIndex(DisplacedX(x, y, d), ctx.sw), LAMBDA new_x :
        Bind(ClampIndex(DisplacedY(y, d), ctx.sh), LAMBDA new_y :
            IF ~IndexOk(new_y, ctx.sh) \/ ~IndexOk(new_x, ctx.sw)
            THEN [acc EXCEPT !.error = TRUE]
            ELSE [acc EXCEPT
                     !.buf = WritePixel(@, new_y, new_x, ctx.graphic_array[y][x])])))))

\* for x in range(scaled_width), line 101 (each step is taken on the value
\* of the one before)
RECURSIVE DisplaceRow(_, _, _, _)
DisplaceRow(ctx, acc, y, x) ==
    IF x >= ctx.sw THEN acc
    ELSE Bind(SourceStep(ctx, acc, x, y), LAMBDA a : DisplaceRow(ctx, a, y, x + 1))

\* for y in range(scaled_height), line 100
RECURSIVE DisplaceRows(_, _, _)
DisplaceRows(ctx, acc, y) ==
    IF y >= ctx.sh THEN acc
    ELSE Bind(DisplaceRow(ctx, acc, y, 0), LAMBDA a : DisplaceRows(ctx, a, y + 1))

\* lines 96-122: the loop over the resized graphic
Displace(region, area_width, area_height, sw, sh, graphic_array) ==
    Bind([region |-> region, area_width |-> area_width,
          area_height |-> area_height, sw |-> sw, sh |-> sh,
          graphic_array |-> graphic_array], LAMBDA ctx :
    Bind([buf |-> ZerosLike(sw, sh), skipped |-> 0, error |-> FALSE], LAMBDA acc :
        DisplaceRows(ctx, acc, 0)))

\* result.paste(displaced_image, (x_offset, y_offset), displaced_image), line
\* 130, on result = self.template.copy(): the pasted image is its own mask, so
\* a pixel of alpha 255 replaces the template's and a pixel of alpha 0 leaves
\* it; the part of the image outside the template is cut off
Paste(img, displaced, sw, sh, x_offset, y_offset) ==
    [Y \in DOMAIN img |->
        [X \in DOMAIN img[Y] |->
            LET dx == X - x_offset
                dy == Y - y_offset
            IN  IF /\ 0 <= dx /\ dx < sw /\ 0 <= dy /\ dy < sh
                   /\ displaced[dy][dx][4] = 255
                THEN displaced[dy][dx]
                ELSE img[Y][X]]]

\* Python's None
None == <<>>

\* what a call leaves behind: the call, how it ended, and the locals of
\* place_graphic that the properties below speak about
NoValue == <<>>

Outcome(status, exc, value, target, scaled, resized, offset, displaced, skipped) ==
    [status |-> status, exc |-> exc, value |-> value, target |-> target,
     scaled |-> scaled, resized |-> resized, offset |-> offset,
     displaced |-> displaced, skipped |-> skipped]

Raises(exc, target, scaled, resized) ==
    Outcome("raise", exc, NoValue, target, scaled, resized, <<0, 0>>, NoValue, 0)

\* place_graphic once the selection is known to be set, lines 61-132
PlaceOnArea(tmpl, dmap, sel, g, scale, area_width, area_height) ==
    Bind(<<ScaledIntMemo[area_width, scale], ScaledIntMemo[area_height, scale]>>,
         LAMBDA target :
        IF target[2] = 0 THEN Raises("ZeroDivisionError", target, target, FALSE)
        ELSE
        Bind(AspectFitMemo[target[1], target[2], g[1], g[2]], LAMBDA fit :
            \* Image.resize rejects a size below 1 x 1
            IF fit[1] < 1 \/ fit[2] < 1
            THEN Raises("ValueError: height and width must be > 0", target, fit, FALSE)
            ELSE IF dmap = None
            THEN Raises("TypeError", target, fit, TRUE)
            ELSE
            Bind(<<sel[1] + ((area_width - fit[1]) \div 2),
                   sel[2] + ((area_height - fit[2]) \div 2)>>, LAMBDA offset :
            Bind(Displace(DispRegion(dmap, sel), area_width, area_height,
                          fit[1], fit[2], ResizedGraphic(fit[1], fit[2])), LAMBDA loop :
                IF loop.error
                THEN Outcome("return", "IndexError", None, target, fit, TRUE,
                             offset, loop.buf, loop.skipped)
                ELSE Outcome("return", "",
                             Paste(tmpl, loop.buf, fit[1], fit[2], offset[1], offset[2]),
                             target, fit, TRUE, offset, loop.buf, loop.skipped)))))

\* a variant of place_graphic that takes the whole template as the area when
\* none is selected
PlaceGraphicDefaultArea(tmpl, dmap, sel, g, scale) ==
    IF sel = None
    THEN PlaceOnArea(tmpl, dmap, <<0, 0, TemplateW, TemplateH>>, g, scale,
                     TemplateW, TemplateH)
    ELSE PlaceOnArea(tmpl, dmap, sel, g, scale, sel[3] - sel[1], sel[4] - sel[2])

\* place_graphic as a function of the object's fields and the call's arguments
PlaceGraphic(tmpl, dmap, sel, g, scale) ==
    IF sel = None THEN Raises("ValueError: No area selected", <<0, 0>>, <<0, 0>>, FALSE)
    ELSE PlaceOnArea(tmpl, dmap, sel, g, scale, sel[3] - sel[1], sel[4] - sel[2])

(***************************************************************************)
(* The object: its fields, and the last call made on it.                   *)
(***************************************************************************)
VARIABLES
    template,          \* self.template
    displacement_map,  \* self.displacement_map: None or the gray array
    selected_area,     \* self.selected_area: None or <<x1, y1, x2, y2>>
    last,              \* the most recent call: its name, arguments and outcome
    calls,             \* which of the two preparing methods have been called
    probe              \* the input and output of a function applied on its own

vars == <<template, displacement_map, selected_area, last, calls, probe>>

Graphics == (1..MaxGraphic) \X (1..MaxGraphic)

Idle == [fn |-> "none"]

NoCall == [op |-> "__init__"]

\* __init__, lines 12-20
Init ==
    /\ template \in {TemplateImage(k) : k \in TemplateKinds}
    /\ displacement_map = None
    /\ selected_area = None
    /\ last = NoCall
    /\ calls = {}
    /\ probe = Idle

\* create_displacement_map, lines 22-25
CreateDisplacementMap ==
    /\ displacement_map' = GrayArray(template)
    /\ last' = [op |-> "create_displacement_map"]
    /\ calls' = calls \cup {"create_displacement_map"}
    /\ UNCHANGED <<template, selected_area, probe>>

\* a variant of the clamp that bounds the coordinate from below only
ClampLow(v, size) == Max2(0, v)

\* max(0, min(v, size)), lines 36-39
Clamp(v, size) == Max2(0, Min2(v, size))

\* lines 42-45: the pair in ascending order
Ordered(a, b) == IF b < a THEN <<b, a>> ELSE <<a, b>>

\* the rectangle set_selected_area stores, lines 35-47
SelectedArea(x1, y1, x2, y2) ==
    LET xs == Ordered(Clamp(x1, TemplateW), Clamp(x2, TemplateW))
        ys == Ordered(Clamp(y1, TemplateH), Clamp(y2, TemplateH))
    IN  <<xs[1], ys[1], xs[2], ys[2]>>

\* set_selected_area(x1, y1, x2, y2), lines 27-47.  Of the arguments the call
\* record keeps whether one lay outside the template and whether a pair came
\* in descending order.
SetSelectedArea(x1, y1, x2, y2) ==
    /\ selected_area' = SelectedArea(x1, y1, x2, y2)
    /\ last' = [op |-> "set_selected_area",
                outside |-> \/ x1 < 0 \/ x1 > TemplateW \/ x2 < 0 \/ x2 > TemplateW
                            \/ y1 < 0 \/ y1 > TemplateH \/ y2 < 0 \/ y2 > TemplateH,
                reversed |-> x2 < x1 \/ y2 < y1]
    /\ calls' = calls \cup {"set_selected_area"}
    /\ UNCHANGED <<template, displacement_map, probe>>

\* a variant of line 93 that pastes onto self.template itself
TemplateAfterPlaceInPlace(tmpl, outcome) ==
    IF outcome.status = "return" /\ outcome.exc = "" THEN outcome.value ELSE tmpl

\* self.template after place_graphic: the composite is pasted onto
\* self.template.copy(), line 93, not onto self.template
TemplateAfterPlace(tmpl, outcome) == tmpl

\* place_graphic(graphic_image, scale_factor), lines 49-132
PlaceGraphicCall(g, scale) ==
    \E outcome \in {PlaceGraphic(template, displacement_map, selected_area, g, scale)} :
        /\ last' = [op |-> "place_graphic", graphic |-> g, scale |-> scale,
                    out |-> outcome]
        /\ template' = TemplateAfterPlace(template, outcome)
        /\ UNCHANGED <<displacement_map, selected_area, calls, probe>>

\* the object driven through its three methods; the corners handed to
\* set_selected_area lie on the template, in either order (every rectangle
\* the method can store is stored for such corners)
Next ==
    \/ CreateDisplacementMap
    \/ \E x1 \in 0..TemplateW, x2 \in 0..TemplateW,
          y1 \in 0..TemplateH, y2 \in 0..TemplateH :
           SetSelectedArea(x1, y1, x2, y2)
    \/ \E g \in Graphics, scale \in Scales : PlaceGraphicCall(g, scale)

Spec == Init /\ [][Next]_vars

(***************************************************************************)
(* set_selected_area on its own, with arguments that lie on the template   *)
(* or outside it, on either side.                                          *)
(***************************************************************************)
CoordsX == (0 - 1)..(TemplateW + 1)
CoordsY == (0 - 1)..(TemplateH + 1)

NextSelect ==
    \E x1 \in CoordsX, x2 \in CoordsX, y1 \in CoordsY, y2 \in CoordsY :
        SetSelectedArea(x1, y1, x2, y2)

SpecSelect == Init /\ [][NextSelect]_vars

(***************************************************************************)
(* The size computation of place_graphic on its own, lines 71-81: the      *)
(* inputs are drawn at the start, one step computes the sizes.             *)
(***************************************************************************)
AspectAreas == (1..AspectMaxArea) \X (1..AspectMaxArea)
AspectGraphics == (1..AspectMaxGraphic) \X (1..AspectMaxGraphic)

\* lines 71-81 for a selection of area_width x area_height: the initial
\* sizes (target) and the sizes handed to resize (scaled); a zero initial
\* height divides by zero at line 76
ScaledSize(area_width, area_height, g, scale) ==
    Bind(<<ScaledInt(area_width, scale), ScaledInt(area_height, scale)>>, LAMBDA target :
        IF target[2] = 0
        THEN [exc |-> "ZeroDivisionError", target |-> target, scaled |-> target]
        ELSE [exc |-> "", target |-> target,
              scaled |-> AspectFit(target[1], target[2], g[1], g[2])])

InitAspect ==
    /\ template = TemplateImage("white")
    /\ displacement_map = None
    /\ selected_area = None
    /\ last = NoCall
    /\ calls = {}
    /\ probe \in {[fn |-> "scaled_size", area |-> a, graphic |-> g, scale |-> sc,
                   done |-> FALSE, out |-> NoValue] :
                     a \in AspectAreas, g \in AspectGraphics, sc \in Scales}

ComputeScaledSize ==
    /\ probe.fn = "scaled_size"
    /\ ~probe.done
    /\ probe' = [probe EXCEPT
                    !.done = TRUE,
                    !.out = ScaledSize(probe.area[1], probe.area[2],
                                       probe.graphic, probe.scale)]
    /\ UNCHANGED <<template, displacement_map, selected_area, last, calls>>

NextAspect == ComputeScaledSize

SpecAspect == InitAspect /\ [][NextAspect]_vars

(***************************************************************************)
(* The vertical displacement of one source pixel on its own, line 116: the *)
(* map value d and the row y are drawn at the start, one step displaces.   *)
(***************************************************************************)
InitShift ==
    /\ template = TemplateImage("white")
    /\ displacement_map = None
    /\ selected_area = None
    /\ last = NoCall
    /\ calls = {}
    /\ probe \in {[fn |-> "displaced_y", d |-> d, y |-> y, done |-> FALSE, new_y |-> 0] :
                     d \in 0..255, y \in 0..ShiftMaxRow}

ComputeDisplacedY ==
    /\ probe.fn = "displaced_y"
    /\ ~probe.done
    /\ probe' = [probe EXCEPT !.done = TRUE, !.new_y = DisplacedY(probe.y, probe.d)]
    /\ UNCHANGED <<template, displacement_map, selected_area, last, calls>>

NextShift == ComputeDisplacedY

SpecShift == InitShift /\ [][NextShift]_vars

(***************************************************************************)
(* Properties.                                                             *)
(***************************************************************************)
\* the last call was a place_graphic
Placed == last.op = "place_graphic"

\* the last call was a place_graphic that returned a composite image
Composited == Placed /\ last.out.status = "return" /\ last.out.exc = ""

\* the stored rectangle has no width or no height
Degenerate(sel) == sel[3] = sel[1] \/ sel[4] = sel[2]

\* C1: after set_selected_area with any four integers the stored rectangle
\* (left, top, right, bottom) satisfies 0 <= left <= right <= width and
\* 0 <= top <= bottom <= height.
C1_SelectionInBounds ==
    selected_area # None =>
        /\ 0 <= selected_area[1]
        /\ selected_area[1] <= selected_area[3]
        /\ selected_area[3] <= TemplateW
        /\ 0 <= selected_area[2]
        /\ selected_area[2] <= selected_area[4]
        /\ selected_area[4] <= TemplateH

\* a rectangle stored from arguments of which one lay outside the template
\* and a pair came in descending order
C1_Witness ==
    /\ last.op = "set_selected_area"
    /\ last.outside
    /\ last.reversed
    /\ ~Degenerate(selected_area)

\* C2: place_graphic fails and returns no buffer whenever no usable
\* selection has been established: set_selected_area was never called, or
\* the stored rectangle has zero width or zero height.
C2_FailsWithoutUsableSelection ==
    (Placed /\ (selected_area = None \/ Degenerate(selected_area)))
        => (last.out.status = "raise" /\ last.out.value = NoValue)

\* C3: for a non-degenerate selection (on an object whose displacement map
\* has been created), whenever int(width * scale) or int(height * scale) is
\* 0, place_graphic aborts with an error, performs no resize and returns no
\* buffer.
C3_AbortsOnZeroTarget ==
    (/\ Placed
     /\ displacement_map # None
     /\ selected_area # None
     /\ ~Degenerate(selected_area)
     /\ (last.out.target[1] = 0 \/ last.out.target[2] = 0))
        => (/\ last.out.status = "raise"
            /\ ~last.out.resized
            /\ last.out.value = NoValue)

Abs(n) == IF n < 0 THEN 0 - n ELSE n

\* C4: whenever the initial scaled width and height are both >= 1, the
\* sizes (target_w, target_h) handed to resize keep the graphic's aspect
\* ratio up to the truncation of the recomputed one:
\* |target_w * gh - target_h * gw| < max(gw, gh).
C4_AspectKept ==
    (/\ probe.fn = "scaled_size"
     /\ probe.done
     /\ probe.out.target[1] >= 1
     /\ probe.out.target[2] >= 1)
        => Abs(probe.out.scaled[1] * probe.graphic[2]
               - probe.out.scaled[2] * probe.graphic[1])
             < Max2(probe.graphic[1], probe.graphic[2])

\* every displacement-map value inside the selection is 255
FieldIsFlat ==
    \A y \in selected_area[2]..(selected_area[4] - 1),
       x \in selected_area[1]..(selected_area[3] - 1) :
        displacement_map[y][x] = 255

\* C5: when every displacement-map value inside the selection is 255, the
\* displaced buffer equals the resized graphic and the composite equals the
\* resized graphic pasted unmodified at (x_offset, y_offset).
C5_FlatFieldIsIdentity ==
    (Composited /\ FieldIsFlat)
        => (/\ last.out.displaced
                 = ResizedGraphic(last.out.scaled[1], last.out.scaled[2])
            /\ last.out.value
                 = Paste(template,
                         ResizedGraphic(last.out.scaled[1], last.out.scaled[2]),
                         last.out.scaled[1], last.out.scaled[2],
                         last.out.offset[1], last.out.offset[2]))

\* C6: a call of place_graphic, whether it succeeds or fails, leaves the
\* template, the displacement_map and the selected_area unchanged, and a
\* place_graphic call that follows one with the same graphic and scale gives
\* the same result.
C6_PlaceLeavesObject ==
    [][last'.op = "place_graphic" =>
          /\ template' = template
          /\ displacement_map' = displacement_map
          /\ selected_area' = selected_area
          /\ (/\ last.op = "place_graphic"
              /\ last'.graphic = last.graphic
              /\ last'.scale = last.scale) => last'.out = last.out]_vars

\* a call that returned a composite different from the template of the
\* object it was made on
C6_Witness == Composited /\ last.out.value # template

\* the clamped displaced coordinates <<new_x, new_y>> of the source pixel
\* (x, y) in the last call, <<>> for a source pixel the loop passes over
DestinationOf(region, x, y) ==
    Bind(MapCoordMemo[x, selected_area[3] - selected_area[1], last.out.scaled[1]],
         LAMBDA map_x :
    Bind(MapCoordMemo[y, selected_area[4] - selected_area[2], last.out.scaled[2]],
         LAMBDA map_y :
        IF map_y >= region.h \/ map_x >= region.w THEN <<>>
        ELSE <<ClampIndex(DisplacedX(x, y, region.at[map_y][map_x]),
                          last.out.scaled[1]),
               ClampIndex(DisplacedY(y, region.at[map_y][map_x]),
                          last.out.scaled[2])>>))

\* the destination of every source pixel <<x, y>> of the last call
Destinations ==
    Bind(DispRegion(displacement_map, selected_area), LAMBDA region :
        [s \in (0..(last.out.scaled[1] - 1)) \X (0..(last.out.scaled[2] - 1)) |->
            DestinationOf(region, s[1], s[2])])

\* the source pixels displaced to (dx, dy)
WritersOf(dest, dx, dy) == {s \in DOMAIN dest : dest[s] = <<dx, dy>>}

\* s comes no later than t in the scan order: y outer, x inner, ascending
ScanLeq(s, t) == s[2] < t[2] \/ (s[2] = t[2] /\ s[1] <= t[1])

\* the pixel of the template under the pixel (dx, dy) of the displaced buffer
\* lies inside the template
UnderBuffer(dx, dy) ==
    /\ last.out.offset[2] + dy \in DOMAIN template
    /\ last.out.offset[1] + dx \in DOMAIN template[last.out.offset[2] + dy]

\* C7: every pixel (dx, dy) of the displaced buffer holds the value of the
\* last source pixel, in row-major scan order, whose clamped displaced
\* coordinates are (dx, dy); a pixel no source pixel maps to stays all-zero,
\* and there the composite shows the template unchanged.
C7_LastWriterWins ==
    Composited =>
        \E dest \in {Destinations} :
        \E resized \in {ResizedGraphic(last.out.scaled[1], last.out.scaled[2])} :
        \A dx \in 0..(last.out.scaled[1] - 1), dy \in 0..(last.out.scaled[2] - 1) :
            \E writers \in {WritersOf(dest, dx, dy)} :
                IF writers = {}
                THEN /\ last.out.displaced[dy][dx] = Clear
                     /\ UnderBuffer(dx, dy) =>
                            last.out.value[last.out.offset[2] + dy][last.out.offset[1] + dx]
                              = template[last.out.offset[2] + dy][last.out.offset[1] + dx]
                ELSE \E s \in writers :
                        /\ \A t \in writers : ScanLeq(t, s)
                        /\ last.out.displaced[dy][dx] = resized[s[2]][s[1]]

\* a composite in which two source pixels were displaced to one pixel of the
\* buffer and no source pixel to another, which lies over the template
C7_Witness ==
    /\ Composited
    /\ \E dest \in {Destinations} :
        /\ \E dx \in 0..(last.out.scaled[1] - 1), dy \in 0..(last.out.scaled[2] - 1) :
               Cardinality(WritersOf(dest, dx, dy)) >= 2
        /\ \E dx \in 0..(last.out.scaled[1] - 1), dy \in 0..(last.out.scaled[2] - 1) :
               WritersOf(dest, dx, dy) = {} /\ UnderBuffer(dx, dy)

\* C8 as written: the vertical displacement applied before clamping is
\* crease_intensity * 6 rounded to the nearest integer,
\* new_y = y + round(crease_intensity * 6).
C8_RoundsToNearest ==
    (probe.fn = "displaced_y" /\ probe.done)
        => probe.new_y = probe.y + VShiftRounded(probe.d)

\* C8, amended: the vertical displacement applied before clamping is
\* crease_intensity * 6 truncated to an integer: new_y = y + k for the k >= 0
\* with k <= crease_intensity * 6 < k + 1, that is with
\* k^2 * 255^3 <= 36 * (255 - d)^3 < (k + 1)^2 * 255^3.
C8_Truncates ==
    (probe.fn = "displaced_y" /\ probe.done)
        => \E k \in 0..6 :
              /\ probe.new_y = probe.y + k
              /\ k * k * (255 * 255 * 255)
                   <= 36 * ((255 - probe.d) * (255 - probe.d) * (255 - probe.d))
              /\ 36 * ((255 - probe.d) * (255 - probe.d) * (255 - probe.d))
                   < (k + 1) * (k + 1) * (255 * 255 * 255)

\* a pixel displaced by less than the nearest integer to crease_intensity * 6
C8_Witness ==
    /\ probe.fn = "displaced_y"
    /\ probe.done
    /\ probe.new_y < probe.y + VShiftRounded(probe.d)

\* C9: for a selection within the template and a scale giving sizes >= 1,
\* every access of the displacement loop is in bounds: no source pixel is
\* passed over, every clamped destination lies in the buffer, and the loop
\* does not end in an IndexError.
C9_LoopInBounds ==
    (/\ Placed
     /\ displacement_map # None
     /\ last.out.resized)
        => (/\ last.out.exc = ""
            /\ last.out.skipped = 0
            /\ \A dest \in {Destinations[s] : s \in DOMAIN Destinations} :
                   /\ dest # <<>>
                   /\ dest[1] \in 0..(last.out.scaled[1] - 1)
                   /\ dest[2] \in 0..(last.out.scaled[2] - 1))

\* both methods that prepare the object have been called
Prepared == {"create_displacement_map", "set_selected_area"} \subseteq calls

\* C10: place_graphic returns a composite image only if both
\* create_displacement_map and set_selected_area were called on the object
\* earlier; in every other order the call fails with an error and returns no
\* image.
C10_NeedsMapAndSelection ==
    Placed =>
        /\ last.out.status = "return" => Prepared
        /\ ~Prepared => (last.out.status = "raise" /\ last.out.value = NoValue)

\* a call made with a selection but without a displacement map, which fails
C10_Witness ==
    /\ Placed
    /\ "set_selected_area" \in calls
    /\ "create_displacement_map" \notin calls
    /\ last.out.status = "raise"
    /\ last.out.exc = "TypeError"
====
